---- MODULE Spec2Model ----
(***************************************************************************)
(* Model of the ride assignment engine (src/assignDriversToRides.js) and   *)
(* of the distance resolver and time helpers it uses (src/utils.js).       *)
(*                                                                         *)
(* Representation of the JavaScript values:                                *)
(*  - a clock string "HH:MM" is the pair <<hours, minutes>>, what          *)
(*    split(':').map(Number) yields; localeCompare of two zero-padded      *)
(*    clock strings is the lexicographic order of the pairs;               *)
(*  - an optional field holds <<>> when it is absent (undefined) and       *)
(*    <<v>> (a clock: <<h, m>>) when it is present;                        *)
(*  - a date string "YYYY-MM-DD" is its day number, ISO dates comparing    *)
(*    under localeCompare as the days do;                                  *)
(*  - a text is the sequence of its characters;                            *)
(*  - coordinates are <<lat, lon>>, all on one meridian, the latitude      *)
(*    counted in units of 0.1 km of arc, so that the haversine distance    *)
(*    of two points is the difference of their latitudes;                  *)
(*  - distances are in tenths of a kilometre, fuel prices in hundredths    *)
(*    of a currency unit per kilometre, and costs in thousandths of a      *)
(*    currency unit, so that every product of the cost model is an         *)
(*    integer and rounding to two decimals is a real operation.            *)
(***************************************************************************)
EXTENDS Integers, Sequences, FiniteSets, TLC

\* ---------------------------------------------------------------- bounds

\* Longest driver list and longest ride list given to one run.
MaxDrivers == 2
MaxRides == 2

\* ------------------------------------------------------- JavaScript values

\* The absent value of an optional field, and null for a driver identity.
Undefined == <<>>
NullId == "null"

\* !v for an optional number: undefined and 0 are both falsy.
FalsyNumber(v) == v = Undefined \/ v[1] = 0

\* !v for an optional clock string: only undefined (and "") is falsy.
FalsyClock(v) == v = Undefined

\* if (id) for a driver identity or null.
TruthyId(id) == id # NullId /\ id # ""

Abs(n) == IF n < 0 THEN -n ELSE n

\* Math.ceil(n / d) for d > 0.
CeilDiv(n, d) == -((-n) \div d)

\* ------------------------------------------------------------------ texts

LowerChar(c) ==
    CASE c = "A" -> "a" [] c = "D" -> "d" [] c = "E" -> "e" [] c = "I" -> "i"
      [] c = "L" -> "l" [] c = "O" -> "o" [] c = "R" -> "r" [] c = "T" -> "t"
      [] OTHER -> c

\* String.prototype.toLowerCase
ToLowerCase(s) == [i \in 1..Len(s) |-> LowerChar(s[i])]

\* String.prototype.includes
Includes(s, sub) ==
    \E k \in 0..(Len(s) - Len(sub)) : SubSeq(s, k + 1, k + Len(sub)) = sub

\* ------------------------------------------------------------ utils.js

\* haversineDistance, for two points of one meridian (tenths of a km).
haversineDistance(coords1, coords2) == Abs(coords2[1] - coords1[1])

getDistanceCacheKey(startCoords, endCoords) ==
    <<startCoords[1], startCoords[2], endCoords[1], endCoords[2]>>

timeToMinutes(timeStr) == timeStr[1] * 60 + timeStr[2]

isTimeInRange(time, startTime, endTime) ==
    /\ timeToMinutes(time) >= timeToMinutes(startTime)
    /\ timeToMinutes(time) <= timeToMinutes(endTime)

\* maxHaversineThreshold set at the engine's pre-check (50 km).
maxHaversineThresholdAtPreFilter == 300 + 200

\* The resolver skips the routed query above this geometric distance (30 km).
maxHaversineThreshold == 300

\* What the routed-distance service may do with one query: throw (network
\* error, timeout), answer without routes, or answer a route of some metres.
RouteMetres == {300, 10300}
OsrmReplies ==
    {[kind |-> "error", metres |-> 0], [kind |-> "noroutes", metres |-> 0]}
      \cup {[kind |-> "ok", metres |-> m] : m \in RouteMetres}

\* distanceCache.set(cacheKey, value).
CachePut(cache, key, value) ==
    [k \in DOMAIN cache \cup {key} |-> IF k = key THEN value ELSE cache[k]]

\* routes[0].distance / 1000 (line 76), in tenths of a kilometre. A route
\* object without a numeric distance gives undefined / 1000, which is NaN:
\* NaN is written as the number -1, no distance being negative.
NaN == -1
KilometresOf(metres) == IF metres = NaN THEN NaN ELSE metres \div 100

\* The response handling taking the metres of the route for hundreds of metres.
HandleResponseDividingByTen(cache, cacheKey, haversineDistanceValue, reply) ==
    IF reply.kind = "ok"
      THEN [distance |-> reply.metres \div 10,
            cache |-> CachePut(cache, cacheKey, reply.metres \div 10),
            queried |-> TRUE]
      ELSE [distance |-> haversineDistanceValue,
            cache |-> CachePut(cache, cacheKey, haversineDistanceValue),
            queried |-> TRUE]

\* The response handling leaving the fallback of a failed query out of the
\* cache.
HandleResponseFallbackNotCached(cache, cacheKey, haversineDistanceValue, reply) ==
    IF reply.kind = "ok"
      THEN [distance |-> KilometresOf(reply.metres),
            cache |-> CachePut(cache, cacheKey, KilometresOf(reply.metres)),
            queried |-> TRUE]
      ELSE [distance |-> haversineDistanceValue, cache |-> cache,
            queried |-> TRUE]

\* Lines 75-88, what getDistanceFromOSRM does once the await is over: a
\* response with a route gives routes[0].distance / 1000, a response without
\* routes and a rejected request (the catch branch) give the geometric
\* distance; each value is put in the cache and returned.
HandleResponse(cache, cacheKey, haversineDistanceValue, reply) ==
    IF reply.kind = "ok"
      THEN [distance |-> KilometresOf(reply.metres),
            cache |-> CachePut(cache, cacheKey, KilometresOf(reply.metres)),
            queried |-> TRUE]
      ELSE [distance |-> haversineDistanceValue,
            cache |-> CachePut(cache, cacheKey, haversineDistanceValue),
            queried |-> TRUE]

\* Lines 54-89 with the reply of the service to the query, if one is sent.
getDistanceFromOSRM(cache, startCoords, endCoords, reply) ==
    LET cacheKey == getDistanceCacheKey(startCoords, endCoords)
        haversineDistanceValue == haversineDistance(startCoords, endCoords)
    IN  IF cacheKey \in DOMAIN cache
          THEN [distance |-> cache[cacheKey], cache |-> cache, queried |-> FALSE]
        ELSE IF haversineDistanceValue > maxHaversineThreshold
          THEN [distance |-> haversineDistanceValue,
                cache |-> CachePut(cache, cacheKey, haversineDistanceValue),
                queried |-> FALSE]
        ELSE HandleResponse(cache, cacheKey, haversineDistanceValue, reply)

\* ------------------------------------------- assignDriversToRides.js helpers

\* isDriverOnShift looking at the start of the ride alone.
isDriverOnShiftStartOnly(driver, startTime, endTime) ==
    IF FalsyClock(driver.shiftStart) \/ FalsyClock(driver.shiftEnd)
      THEN TRUE
      ELSE isTimeInRange(startTime, driver.shiftStart, driver.shiftEnd)

isDriverOnShift(driver, startTime, endTime) ==
    IF FalsyClock(driver.shiftStart) \/ FalsyClock(driver.shiftEnd)
      THEN TRUE
      ELSE /\ isTimeInRange(startTime, driver.shiftStart, driver.shiftEnd)
           /\ isTimeInRange(endTime, driver.shiftStart, driver.shiftEnd)

\* isAddressBlocked without the toLowerCase calls.
isAddressBlockedCaseSensitive(driver, address) ==
    IF Len(driver.blockedAddresses) = 0
      THEN FALSE
      ELSE \E b \in 1..Len(driver.blockedAddresses) :
             Includes(address, driver.blockedAddresses[b])

isAddressBlocked(driver, address) ==
    IF Len(driver.blockedAddresses) = 0
      THEN FALSE
      ELSE \E b \in 1..Len(driver.blockedAddresses) :
             Includes(ToLowerCase(address), ToLowerCase(driver.blockedAddresses[b]))

getTimeDifferenceInMinutes(startTime, endTime) ==
    (endTime[1] * 60 + endTime[2]) - (startTime[1] * 60 + startTime[2])

\* wouldExceedDailyHours comparing the ride alone with the cap, the minutes
\* already worked that day left out.
wouldExceedDailyHoursRideOnly(driverAssignment, driver, ride) ==
    IF FalsyNumber(driver.maxDailyWorkHours)
      THEN FALSE
      ELSE getTimeDifferenceInMinutes(ride.startTime, ride.endTime)
             > driver.maxDailyWorkHours[1] * 60

wouldExceedDailyHours(driverAssignment, driver, ride) ==
    IF FalsyNumber(driver.maxDailyWorkHours)
      THEN FALSE
      ELSE LET maxDailyMinutes == driver.maxDailyWorkHours[1] * 60
               currentDailyMinutes == driverAssignment.dailyWorkMinutes[ride.date]
               rideDurationMinutes ==
                   getTimeDifferenceInMinutes(ride.startTime, ride.endTime)
           IN  (currentDailyMinutes + rideDurationMinutes) > maxDailyMinutes

isTimeAfter(time1, time2) ==
    IF time1[1] > time2[1] THEN TRUE
    ELSE IF time1[1] < time2[1] THEN FALSE
    ELSE time1[2] > time2[2]

addMinutesToTime(timeStr, minutes) ==
    LET totalMinutes == timeStr[1] * 60 + timeStr[2] + minutes
    IN  <<totalMinutes \div 60, totalMinutes % 60>>

\* ------------------------------------------------------------------ inputs

Lod == <<"L", "o", "d">>
Eilat == <<"E", "i", "l", "a", "t">>
Arad == <<"A", "r", "a", "d">>
Dor == <<"D", "o", "r">>

\* Coordinates of the places: Lod - Eilat 8 km, Lod - Arad 40 km,
\* Eilat - Arad 32 km, Dor 60 km and more from the others.
CoordsOf(place) ==
    CASE place = Lod -> <<0, 0>> [] place = Eilat -> <<80, 0>>
      [] place = Arad -> <<400, 0>> [] OTHER -> <<1000, 0>>

Dates == {1, 2}

DriverRecord(id, city, seats, fuel, shiftStart, shiftEnd, cap, blocked) ==
    [driverId |-> id, city |-> city, city_coords |-> CoordsOf(city),
     numberOfSeats |-> seats, fuelCost |-> fuel,
     shiftStart |-> shiftStart, shiftEnd |-> shiftEnd,
     maxDailyWorkHours |-> cap, blockedAddresses |-> blocked]

RideRecord(id, date, startTime, endTime, startPoint, endPoint, seats) ==
    [_id |-> id, date |-> date, startTime |-> startTime, endTime |-> endTime,
     startPoint |-> startPoint, startPoint_coords |-> CoordsOf(startPoint),
     endPoint |-> endPoint, endPoint_coords |-> CoordsOf(endPoint),
     numberOfSeats |-> seats]

\* The driver records a driver list is drawn from.
DriverRecords ==
    { DriverRecord("d1", Lod, 4, 65, <<8, 0>>, <<9, 15>>, Undefined, <<>>),
      DriverRecord("d2", Lod, 4, 65, Undefined, Undefined, <<1>>, <<>>),
      DriverRecord("d3", Eilat, 6, 50, Undefined, Undefined, Undefined,
                   << <<"R", "A", "D">> >>) }

DriverIds == {d.driverId : d \in DriverRecords}
DriverPool == [id \in DriverIds |-> CHOOSE d \in DriverRecords : d.driverId = id]

\* The ride records a ride list is drawn from.
RideRecords ==
    { RideRecord("r1", 1, <<8, 0>>, <<8, 50>>, Lod, Eilat, 2),
      RideRecord("r2", 1, <<9, 0>>, <<9, 20>>, Eilat, Lod, 2),
      RideRecord("r3", 1, <<8, 30>>, <<9, 10>>, Lod, Arad, 2),
      RideRecord("r4", 1, <<9, 0>>, <<9, 30>>, Eilat, Dor, 5),
      RideRecord("r5", 2, <<9, 0>>, <<9, 20>>, Eilat, Arad, 2),
      RideRecord("r6", 1, <<10, 0>>, <<9, 0>>, Lod, Lod, 2) }

RideIds == {r._id : r \in RideRecords}
RidePool == [id \in RideIds |-> CHOOSE r \in RideRecords : r._id = id]

\* The lists of 1..n distinct elements of S, in every order.
RECURSIVE ListsOf(_, _)
ListsOf(S, n) ==
    IF n = 0 THEN {<<>>}
    ELSE LET shorter == ListsOf(S, n - 1)
         IN  shorter \cup
               {Append(l, x) : <<l, x>> \in
                  {p \in shorter \X S :
                     /\ Len(p[1]) = n - 1
                     /\ \A i \in 1..Len(p[1]) : p[1][i] # p[2]}}

\* A list of records is held as the list of their identities, the records of
\* one run having distinct identities.
DriverLists == {l \in ListsOf(DriverIds, MaxDrivers) : Len(l) >= 1}
RideLists == {l \in ListsOf(RideIds, MaxRides) : Len(l) >= 1}

\* ------------------------------------------------------------------- state

VARIABLES
    pc,                 \* "start", "eval", "select", "return", "done"
    drivers,            \* driversData, as the identities of its records
    rides,              \* ridesData, as the identities of its records; the
                        \* run sorts it in place
    rideIdx,            \* position of the ride loop
    driverIdx,          \* position of the driver loop
    bestDriverId,
    minCost,            \* <<>> is Infinity, <<c>> the number c
    assignments,
    driverAvailability,
    totalCost,
    apiCallsSaved,
    distanceCache,
    result,             \* what the run returned, <<>> before it returns
    evals,              \* history: the evaluations made for the current ride
    history,            \* history: one record per ride processed
    osrmLog,            \* history: the queries sent to the routed-distance
                        \* service, each with the route it got, if any
    ridesData,          \* two runs: the ride list as the caller passed it
    firstRun,           \* two runs: <<>>, or <<what the first run gave>>
    calls,              \* direct calls of getDistanceFromOSRM: where each
                        \* caller stands
    returned            \* direct calls: <<>>, or <<what the last call to
                        \* return handed back>>

vars == <<pc, drivers, rides, rideIdx, driverIdx, bestDriverId, minCost,
          assignments, driverAvailability, totalCost, apiCallsSaved,
          distanceCache, result, evals, history, osrmLog, ridesData, firstRun,
          calls, returned>>

\* The variables of the direct calls of the resolver, and of the second run.
resolverVars == <<calls, returned>>
rerunVars == <<ridesData, firstRun>>

\* ------------------------------------------------ assignDriversToRides.js

\* a.localeCompare(b) < 0 for two zero-padded clock strings.
ClockBefore(a, b) == a[1] < b[1] \/ (a[1] = b[1] /\ a[2] < b[2])

\* The comparator of rides.sort is negative on (a, b).
RideBefore(a, b) ==
    IF RidePool[a].date # RidePool[b].date
      THEN RidePool[a].date < RidePool[b].date
      ELSE ClockBefore(RidePool[a].startTime, RidePool[b].startTime)

\* Array.prototype.sort is stable: an element goes behind every element that
\* does not come after it.
RECURSIVE InsertRide(_, _)
InsertRide(sorted, ride) ==
    IF Len(sorted) = 0 THEN <<ride>>
    ELSE IF RideBefore(ride, sorted[Len(sorted)])
      THEN Append(InsertRide(SubSeq(sorted, 1, Len(sorted) - 1), ride),
                  sorted[Len(sorted)])
      ELSE Append(sorted, ride)

\* The rides left in the order they were given.
SortRidesSkipped(list) == list

RECURSIVE SortRides(_)
SortRides(list) ==
    IF Len(list) = 0 THEN <<>>
    ELSE InsertRide(SortRides(SubSeq(list, 1, Len(list) - 1)), list[Len(list)])

\* The engine resolves a leg through the resolver up to this geometric
\* distance (50 km) and takes the geometric distance beyond it.
EnginePreFilter == 500

\* Lines 66-86 and 103-123: the distance of one leg, the cache afterwards and
\* the number of queries spared. The resolver catches its own errors, so the
\* engine's catch branch has nothing to run on.
ResolveLeg(cache, fromCoords, toCoords, reply) ==
    LET haversine == haversineDistance(fromCoords, toCoords)
    IN  IF haversine <= EnginePreFilter
          THEN LET r == getDistanceFromOSRM(cache, fromCoords, toCoords, reply)
               IN  [distance |-> r.distance, cache |-> r.cache, saved |-> 0,
                    queried |-> r.queried]
          ELSE [distance |-> haversine, cache |-> cache, saved |-> 1,
                queried |-> FALSE]

\* emptyRideDurationMinutes with Math.floor in the place of Math.ceil.
EmptyRideDurationMinutesFloored(emptyRideDistance) == emptyRideDistance \div 10

\* emptyRideDurationMinutes: Math.ceil((distance / 60) * 60), the distance in
\* tenths of a km.
EmptyRideDurationMinutes(emptyRideDistance) == CeilDiv(emptyRideDistance, 10)

\* totalAssignmentCost without the fuel of the empty leg.
TotalAssignmentCostWithoutEmptyLeg(driver, ride, rideDistance, emptyRideDistance) ==
    LET rideDurationMinutes ==
            getTimeDifferenceInMinutes(ride.startTime, ride.endTime)
    IN  rideDurationMinutes * 500 + rideDistance * driver.fuelCost

\* totalAssignmentCost, in thousandths: (minutes / 60) * 30 is 500 a minute.
TotalAssignmentCost(driver, ride, rideDistance, emptyRideDistance) ==
    LET rideDurationMinutes ==
            getTimeDifferenceInMinutes(ride.startTime, ride.endTime)
        driverTimeCost == rideDurationMinutes * 500
        rideFuelCost == rideDistance * driver.fuelCost
        emptyRideFuelCost == emptyRideDistance * driver.fuelCost
    IN  driverTimeCost + rideFuelCost + emptyRideFuelCost

\* The checks of lines 45-65 without the comparison of the seats.
PassesStaticChecksWithoutSeats(driver, ride, availability, driverAssignment) ==
    /\ ~isTimeAfter(availability.busyUntil, ride.startTime)
    /\ isDriverOnShift(driver, ride.startTime, ride.endTime)
    /\ ~(isAddressBlocked(driver, ride.startPoint)
           \/ isAddressBlocked(driver, ride.endPoint))
    /\ ~wouldExceedDailyHours(driverAssignment, driver, ride)

\* The checks made before any distance is resolved (lines 45-65).
PassesStaticChecks(driver, ride, availability, driverAssignment) ==
    /\ ~(driver.numberOfSeats < ride.numberOfSeats)
    /\ ~isTimeAfter(availability.busyUntil, ride.startTime)
    /\ isDriverOnShift(driver, ride.startTime, ride.endTime)
    /\ ~(isAddressBlocked(driver, ride.startPoint)
           \/ isAddressBlocked(driver, ride.endPoint))
    /\ ~wouldExceedDailyHours(driverAssignment, driver, ride)

\* The reachability check of lines 88-98.
ArrivesInTime(availability, ride, emptyRideDistance) ==
    ~isTimeAfter(addMinutesToTime(availability.busyUntil,
                                  EmptyRideDurationMinutes(emptyRideDistance)),
                 ride.startTime)

\* The query a resolved leg sent to the service, as a list of no or one entry:
\* the pair asked for, whether a route came back (line 75) and its metres.
QueryOf(leg, fromCoords, toCoords, reply) ==
    IF leg.queried
      THEN << [key |-> getDistanceCacheKey(fromCoords, toCoords),
               routed |-> reply.kind = "ok", metres |-> reply.metres] >>
      ELSE <<>>

\* One pass of the driver loop body (lines 45-129) for one driver: whether the
\* driver reaches the cost comparison, with which cost, what the pass leaves
\* in the cache and in apiCallsSaved, and the queries it sent.
EvaluateDriver(driver, ride, availability, driverAssignment, cache, reply1, reply2) ==
    LET skipped == [candidate |-> FALSE, resolved |-> FALSE,
                    emptyRideDistance |-> 0, rideDistance |-> 0, cost |-> 0,
                    cache |-> cache, saved |-> 0, queries |-> <<>>]
    IN  IF ~PassesStaticChecks(driver, ride, availability, driverAssignment)
          THEN skipped
          ELSE
            LET empty == ResolveLeg(cache, availability.lastRideEndPoint_coords,
                                    ride.startPoint_coords, reply1)
                emptyQuery == QueryOf(empty, availability.lastRideEndPoint_coords,
                                      ride.startPoint_coords, reply1)
            IN  IF ~ArrivesInTime(availability, ride, empty.distance)
                  THEN [skipped EXCEPT !.resolved = TRUE,
                                       !.emptyRideDistance = empty.distance,
                                       !.cache = empty.cache,
                                       !.saved = empty.saved,
                                       !.queries = emptyQuery]
                  ELSE
                    LET leg == ResolveLeg(empty.cache, ride.startPoint_coords,
                                          ride.endPoint_coords, reply2)
                    IN  [candidate |-> TRUE, resolved |-> TRUE,
                         emptyRideDistance |-> empty.distance,
                         rideDistance |-> leg.distance,
                         cost |-> TotalAssignmentCost(driver, ride, leg.distance,
                                                      empty.distance),
                         cache |-> leg.cache,
                         saved |-> empty.saved + leg.saved,
                         queries |-> emptyQuery \o
                             QueryOf(leg, ride.startPoint_coords,
                                     ride.endPoint_coords, reply2)]

\* The comparison with minCost starting from 0 instead of Infinity.
LessThanMinCostFromZero(cost, min) == cost < (IF min = <<>> THEN 0 ELSE min[1])

\* The comparison letting a later driver of equal cost replace the best one.
LessThanMinCostOrEqual(cost, min) == min = <<>> \/ cost <= min[1]

\* totalAssignmentCost < minCost, minCost being Infinity at first.
LessThanMinCost(cost, min) == min = <<>> \/ cost < min[1]

\* The total cut to two decimals instead of rounded.
RoundToCentsTruncated(thousandths) == thousandths \div 10

\* Math.round(totalCost * 100) / 100, in hundredths: halves round upwards.
RoundToCents(thousandths) == (thousandths + 5) \div 10

\* driverAvailability as set up for one driver (lines 31-37).
InitialAvailability(driver) ==
    [lastRideEndTime |-> IF FalsyClock(driver.shiftStart) THEN <<0, 0>>
                         ELSE driver.shiftStart,
     lastRideEndPoint |-> driver.city,
     lastRideEndPoint_coords |-> driver.city_coords,
     busyUntil |-> IF FalsyClock(driver.shiftStart) THEN <<0, 0>>
                   ELSE driver.shiftStart,
     lastActiveDate |-> 0]

\* assignments.findIndex(a => a.driverId === id)
IndexOfDriver(list, id) ==
    CHOOSE i \in 1..Len(list) :
      /\ list[i].driverId = id
      /\ \A j \in 1..(i - 1) : list[j].driverId # id

\* ----------------------------------------------------------------- actions

\* The callers that may be inside getDistanceFromOSRM at the same time.
MaxCallers == 2
Callers == 1..MaxCallers

\* A caller outside getDistanceFromOSRM.
Idle == [state |-> "idle", from |-> <<0, 0>>, to |-> <<0, 0>>,
         reply |-> [kind |-> "none", metres |-> 0]]

\* No caller is inside getDistanceFromOSRM, none has returned from it.
NoCalls ==
    /\ calls = [c \in Callers |-> Idle]
    /\ returned = <<>>

Init ==
    /\ pc = "start"
    /\ drivers \in DriverLists
    /\ rides \in RideLists
    /\ ridesData = <<>>
    /\ firstRun = <<>>
    /\ NoCalls
    /\ rideIdx = 0
    /\ driverIdx = 0
    /\ bestDriverId = NullId
    /\ minCost = <<>>
    /\ assignments = <<>>
    /\ driverAvailability = <<>>
    /\ totalCost = 0
    /\ apiCallsSaved = 0
    /\ distanceCache = <<>>
    /\ result = <<>>
    /\ evals = <<>>
    /\ history = <<>>
    /\ osrmLog = <<>>

\* Where the ride loop stands once it moves to ride number i.
PcAtRide(i, nRides, nDrivers) ==
    IF i > nRides THEN "return"
    ELSE IF nDrivers = 0 THEN "select" ELSE "eval"

\* The set-up with totalCost kept from one call to the next, as a variable of
\* the module would be.
BeginKeepingTotalCost ==
    /\ pc = "start"
    /\ rides' = SortRides(rides)
    /\ assignments' =
         [i \in 1..Len(drivers) |->
            [driverId |-> DriverPool[drivers[i]].driverId, rideIds |-> <<>>,
             dailyWorkMinutes |-> [d \in Dates |-> 0]]]
    /\ driverAvailability' =
         [id \in {DriverPool[drivers[i]].driverId : i \in 1..Len(drivers)} |->
            InitialAvailability(DriverPool[id])]
    /\ apiCallsSaved' = 0
    /\ rideIdx' = 1
    /\ driverIdx' = 1
    /\ bestDriverId' = NullId
    /\ minCost' = <<>>
    /\ pc' = PcAtRide(1, Len(rides), Len(drivers))
    /\ UNCHANGED <<drivers, distanceCache, result, evals, history, osrmLog,
                   totalCost>>
    /\ UNCHANGED <<resolverVars, rerunVars>>

\* Lines 12-38: sort the rides in place, set up assignments and availability;
\* lines 40-44: enter the loops.
Begin ==
    /\ pc = "start"
    /\ rides' = SortRides(rides)
    /\ assignments' =
         [i \in 1..Len(drivers) |->
            [driverId |-> DriverPool[drivers[i]].driverId, rideIds |-> <<>>,
             dailyWorkMinutes |-> [d \in Dates |-> 0]]]
    /\ driverAvailability' =
         [id \in {DriverPool[drivers[i]].driverId : i \in 1..Len(drivers)} |->
            InitialAvailability(DriverPool[id])]
    /\ totalCost' = 0
    /\ apiCallsSaved' = 0
    /\ rideIdx' = 1
    /\ driverIdx' = 1
    /\ bestDriverId' = NullId
    /\ minCost' = <<>>
    /\ pc' = PcAtRide(1, Len(rides), Len(drivers))
    /\ UNCHANGED <<drivers, distanceCache, result, evals, history, osrmLog>>
    /\ UNCHANGED <<resolverVars, rerunVars>>

\* Lines 44-135: the body of the driver loop for the current driver, the
\* routed-distance service answering reply1 and reply2 to the queries of the
\* empty leg and of the ride leg, if they go out.
EvalDriver(reply1, reply2) ==
    /\ pc = "eval"
    /\ LET ride == RidePool[rides[rideIdx]]
           driver == DriverPool[drivers[driverIdx]]
           availability == driverAvailability[driver.driverId]
           driverAssignment ==
               assignments[IndexOfDriver(assignments, driver.driverId)]
           e == EvaluateDriver(driver, ride, availability, driverAssignment,
                               distanceCache, reply1, reply2)
           better == e.candidate /\ LessThanMinCost(e.cost, minCost)
       IN  /\ distanceCache' = e.cache
           /\ osrmLog' = osrmLog \o e.queries
           /\ apiCallsSaved' = apiCallsSaved + e.saved
           /\ minCost' = IF better THEN <<e.cost>> ELSE minCost
           /\ bestDriverId' = IF better THEN driver.driverId ELSE bestDriverId
           /\ evals' = Append(evals,
                 [driverId |-> driver.driverId, busyUntil |-> availability.busyUntil,
                  position |-> availability.lastRideEndPoint_coords,
                  ledger |-> driverAssignment.dailyWorkMinutes[ride.date],
                  resolved |-> e.resolved,
                  emptyRideDistance |-> e.emptyRideDistance,
                  rideDistance |-> e.rideDistance,
                  candidate |-> e.candidate, cost |-> e.cost])
    /\ driverIdx' = driverIdx + 1
    /\ pc' = IF driverIdx = Len(drivers) THEN "select" ELSE "eval"
    /\ UNCHANGED <<drivers, rides, rideIdx, assignments, driverAvailability,
                   totalCost, result, history>>
    /\ UNCHANGED <<resolverVars, rerunVars>>

\* The commit pushing the ride identity twice.
CommittedAssignmentPushedTwice(a, ride) ==
    [a EXCEPT !.rideIds = Append(Append(@, ride._id), ride._id),
              !.dailyWorkMinutes[ride.date] =
                  @ + getTimeDifferenceInMinutes(ride.startTime, ride.endTime)]

\* The record the commit leaves for the chosen driver (lines 139-146).
CommittedAssignment(a, ride) ==
    [a EXCEPT !.rideIds = Append(@, ride._id),
              !.dailyWorkMinutes[ride.date] =
                  @ + getTimeDifferenceInMinutes(ride.startTime, ride.endTime)]

\* The availability the commit leaves for the chosen driver (lines 149-155).
CommittedAvailability(ride) ==
    [lastRideEndTime |-> ride.endTime,
     lastRideEndPoint |-> ride.endPoint,
     lastRideEndPoint_coords |-> ride.endPoint_coords,
     busyUntil |-> ride.endTime,
     lastActiveDate |-> ride.date]

\* The ride loop moves on to the next ride (lines 40-43).
NextRide ==
    /\ rideIdx' = rideIdx + 1
    /\ driverIdx' = 1
    /\ bestDriverId' = NullId
    /\ minCost' = <<>>
    /\ evals' = <<>>
    /\ history' = Append(history,
          [ride |-> RidePool[rides[rideIdx]]._id, chosen |-> bestDriverId,
           minCost |-> minCost, evals |-> evals])
    /\ pc' = PcAtRide(rideIdx + 1, Len(rides), Len(drivers))

\* The commit writing the ride's end state into the availability of every
\* driver.
CommitRideMovingEveryDriver ==
    /\ pc = "select"
    /\ TruthyId(bestDriverId)
    /\ LET ride == RidePool[rides[rideIdx]]
           driverIndex == IndexOfDriver(assignments, bestDriverId)
       IN  /\ assignments' =
                 [assignments EXCEPT
                    ![driverIndex] = CommittedAssignment(@, ride)]
           /\ driverAvailability' =
                 [id \in DOMAIN driverAvailability |-> CommittedAvailability(ride)]
           /\ totalCost' = totalCost + minCost[1]
    /\ NextRide
    /\ UNCHANGED <<drivers, rides, apiCallsSaved, distanceCache, result,
                   osrmLog>>
    /\ UNCHANGED <<resolverVars, rerunVars>>

\* Lines 137-158: a best driver was found, the ride is committed to it.
CommitRide ==
    /\ pc = "select"
    /\ TruthyId(bestDriverId)
    /\ LET ride == RidePool[rides[rideIdx]]
           driverIndex == IndexOfDriver(assignments, bestDriverId)
       IN  /\ assignments' =
                 [assignments EXCEPT
                    ![driverIndex] = CommittedAssignment(@, ride)]
           /\ driverAvailability' =
                 [driverAvailability EXCEPT
                    ![bestDriverId] = CommittedAvailability(ride)]
           /\ totalCost' = totalCost + minCost[1]
    /\ NextRide
    /\ UNCHANGED <<drivers, rides, apiCallsSaved, distanceCache, result,
                   osrmLog>>
    /\ UNCHANGED <<resolverVars, rerunVars>>

\* Line 137, bestDriverId being null: the ride is left out.
DropRide ==
    /\ pc = "select"
    /\ ~TruthyId(bestDriverId)
    /\ NextRide
    /\ UNCHANGED <<drivers, rides, assignments, driverAvailability, totalCost,
                   apiCallsSaved, distanceCache, result, osrmLog>>
    /\ UNCHANGED <<resolverVars, rerunVars>>

\* Lines 161-171: the drivers with rides, and the total rounded.
FilteredAssignments(list) ==
    LET kept == SelectSeq(list, LAMBDA a : Len(a.rideIds) > 0)
    IN  [i \in 1..Len(kept) |->
           [driverId |-> kept[i].driverId, rideIds |-> kept[i].rideIds]]

Return ==
    /\ pc = "return"
    /\ result' = [assignments |-> FilteredAssignments(assignments),
                  totalCost |-> RoundToCents(totalCost)]
    /\ pc' = "done"
    /\ UNCHANGED <<drivers, rides, rideIdx, driverIdx, bestDriverId, minCost,
                   assignments, driverAvailability, totalCost, apiCallsSaved,
                   distanceCache, evals, history, osrmLog>>
    /\ UNCHANGED <<resolverVars, rerunVars>>

\* The replies the service can give to the queries of the current pass: a
\* reply exists only for a query that goes out.
NoReply == [kind |-> "none", metres |-> 0]

WouldQuery(cache, fromCoords, toCoords) ==
    /\ haversineDistance(fromCoords, toCoords) <= EnginePreFilter
    /\ getDistanceCacheKey(fromCoords, toCoords) \notin DOMAIN cache
    /\ haversineDistance(fromCoords, toCoords) <= maxHaversineThreshold

\* The service answers a pair as it answered it in the first run, if it was
\* asked for it there.
AnswersFor(key) ==
    LET asked == IF firstRun = <<>> THEN {}
                 ELSE {q \in 1..Len(firstRun[1].log) : firstRun[1].log[q].key = key}
    IN  IF asked = {} THEN OsrmReplies
        ELSE {reply \in OsrmReplies :
                \E q \in asked :
                  /\ (reply.kind = "ok") = firstRun[1].log[q].routed
                  /\ reply.metres = firstRun[1].log[q].metres}

RepliesTo(cache, fromCoords, toCoords) ==
    IF WouldQuery(cache, fromCoords, toCoords)
      THEN AnswersFor(getDistanceCacheKey(fromCoords, toCoords))
      ELSE {NoReply}

\* One pass of the driver loop, under every reply the service can give.
Evaluate ==
    /\ pc = "eval"
    /\ LET ride == RidePool[rides[rideIdx]]
           position == driverAvailability[drivers[driverIdx]].lastRideEndPoint_coords
       IN  \E reply1 \in RepliesTo(distanceCache, position, ride.startPoint_coords) :
             \E reply2 \in RepliesTo(
                  ResolveLeg(distanceCache, position, ride.startPoint_coords,
                             reply1).cache,
                  ride.startPoint_coords, ride.endPoint_coords) :
               EvalDriver(reply1, reply2)

Next ==
    \/ Begin
    \/ Evaluate
    \/ CommitRide
    \/ DropRide
    \/ Return

Spec == Init /\ [][Next]_vars

\* ------------------------------------------------------------- properties

\* The number of times a ride identity stands in a list of ride identities.
Occurrences(list, id) == Cardinality({k \in 1..Len(list) : list[k] = id})

\* The positions of the drivers whose rideIds hold the ride.
HoldersOf(id) ==
    {i \in 1..Len(assignments) : Occurrences(assignments[i].rideIds, id) > 0}

\* The rides the run has dealt with, and those among them it committed.
Processed == 1..Len(history)
Committed == {n \in Processed : history[n].chosen # NullId}

\* The evaluation of the chosen driver in a committed entry of the history.
ChosenEval(h) ==
    h.evals[CHOOSE k \in 1..Len(h.evals) : h.evals[k].driverId = h.chosen]

Minutes(clock) == clock[1] * 60 + clock[2]
Duration(ride) == Minutes(ride.endTime) - Minutes(ride.startTime)

\* The feasibility checks as the specification states them, on the facts an
\* evaluation was made on: the driver, its busy-until and ledger at that
\* moment, and the empty-leg distance resolved for it.
HasSeats(d, r) == d.numberOfSeats >= r.numberOfSeats

HasShift(d) == d.shiftStart # Undefined /\ d.shiftEnd # Undefined

WithinShift(d, r) ==
    HasShift(d) =>
      /\ Minutes(d.shiftStart) <= Minutes(r.startTime)
      /\ Minutes(r.startTime) <= Minutes(d.shiftEnd)
      /\ Minutes(d.shiftStart) <= Minutes(r.endTime)
      /\ Minutes(r.endTime) <= Minutes(d.shiftEnd)

SameLetter(a, b) == LowerChar(a) = LowerChar(b)

ContainsIgnoringCase(text, part) ==
    \E k \in 0..(Len(text) - Len(part)) :
      \A j \in 1..Len(part) : SameLetter(text[k + j], part[j])

BlockedFor(d, r) ==
    \E b \in 1..Len(d.blockedAddresses) :
      \/ ContainsIgnoringCase(r.startPoint, d.blockedAddresses[b])
      \/ ContainsIgnoringCase(r.endPoint, d.blockedAddresses[b])

HasCap(d) == d.maxDailyWorkHours # Undefined

WithinCap(d, r, ledger) ==
    HasCap(d) => ledger + Duration(r) <= d.maxDailyWorkHours[1] * 60

FreeInTime(busy, r) == Minutes(busy) <= Minutes(r.startTime)

\* Travel at 60 km an hour, rounded up to whole minutes.
ReachesInTime(busy, r, tenthsOfKm) ==
    Minutes(busy) + CeilDiv(tenthsOfKm, 10) <= Minutes(r.startTime)

Feasible(rideId, ev) ==
    LET d == DriverPool[ev.driverId]
        r == RidePool[rideId]
    IN  /\ HasSeats(d, r)
        /\ WithinShift(d, r)
        /\ ~BlockedFor(d, r)
        /\ WithinCap(d, r, ev.ledger)
        /\ FreeInTime(ev.busyUntil, r)
        /\ ev.resolved
        /\ ReachesInTime(ev.busyUntil, r, ev.emptyRideDistance)

FeasibleEvals(h) == {k \in 1..Len(h.evals) : Feasible(h.ride, h.evals[k])}

\* Every ride has its end no earlier than its start (no overnight ride).
ValidInput ==
    \A i \in 1..Len(rides) :
      Minutes(RidePool[rides[i]].endTime) >= Minutes(RidePool[rides[i]].startTime)

\* C1: every ride identity stands in at most one driver's rideIds, and at
\* most once there, in every state of a run and in what the run returns.
C1_RideAssignedAtMostOnce ==
    \A id \in RideIds :
      /\ Cardinality(HoldersOf(id)) <= 1
      /\ \A i \in 1..Len(assignments) :
           Occurrences(assignments[i].rideIds, id) <= 1
      /\ pc = "done" =>
           /\ Cardinality({i \in 1..Len(result.assignments) :
                 Occurrences(result.assignments[i].rideIds, id) > 0}) <= 1
           /\ \A i \in 1..Len(result.assignments) :
                Occurrences(result.assignments[i].rideIds, id) <= 1

\* C1 witness: a finished run that gave rides to two drivers.
C1_Witness ==
    /\ pc = "done"
    /\ Len(result.assignments) = 2
    /\ Len(rides) = 2

\* C2: the rides of a driver, in the order it accepted them, have
\* non-decreasing (date, startTime), and of two rides of one date the later
\* accepted starts no earlier than the earlier accepted ends.
C2_ChronologicalNoOverlap ==
    \A i \in 1..Len(assignments) :
      LET ids == assignments[i].rideIds
      IN  \A a \in 1..Len(ids), b \in 1..Len(ids) :
            a < b =>
              LET first == RidePool[ids[a]]
                  later == RidePool[ids[b]]
              IN  /\ \/ first.date < later.date
                     \/ /\ first.date = later.date
                        /\ Minutes(first.startTime) <= Minutes(later.startTime)
                  /\ first.date = later.date =>
                       Minutes(later.startTime) >= Minutes(first.endTime)

\* C2 witness: a driver holds two rides of one date.
C2_Witness ==
    \E i \in 1..Len(assignments) :
      /\ Len(assignments[i].rideIds) = 2
      /\ RidePool[assignments[i].rideIds[1]].date
           = RidePool[assignments[i].rideIds[2]].date

C4_CheapestFirstWins ==
    \A n \in Committed :
      LET h == history[n]
          chosenAt == CHOOSE k \in 1..Len(h.evals) : h.evals[k].driverId = h.chosen
      IN  /\ \A k \in 1..Len(h.evals) : h.evals[k].driverId = drivers[k]
          /\ chosenAt \in FeasibleEvals(h)
          /\ \A k \in FeasibleEvals(h) :
               /\ h.evals[chosenAt].cost <= h.evals[k].cost
               /\ h.evals[k].cost = h.evals[chosenAt].cost => chosenAt <= k

\* C4 witness: two feasible drivers of equal cost, and a commit where the
\* second driver of the list was strictly cheaper than the first.
C4_Witness ==
    /\ \E n \in Committed :
         /\ FeasibleEvals(history[n]) = {1, 2}
         /\ history[n].evals[1].cost = history[n].evals[2].cost
    /\ \E n \in Committed :
         /\ FeasibleEvals(history[n]) = {1, 2}
         /\ history[n].evals[2].cost < history[n].evals[1].cost

ResolvedDistance(from, to) ==
    IF Abs(to[1] - from[1]) > 500 THEN Abs(to[1] - from[1])
    ELSE distanceCache[<<from[1], from[2], to[1], to[2]>>]

\* C6: the driver a ride was committed to could, from its busy-until and at
\* 60 km an hour over the resolved distance from its last position to the
\* start point of the ride, the minutes rounded up, arrive no later than the
\* ride starts.
C6_ChosenDriverArrivesInTime ==
    \A n \in Committed :
      LET h == history[n]
          ev == ChosenEval(h)
          r == RidePool[h.ride]
      IN  /\ ev.resolved
          /\ ev.emptyRideDistance = ResolvedDistance(ev.position, r.startPoint_coords)
          /\ Minutes(ev.busyUntil) + CeilDiv(ev.emptyRideDistance, 10)
               <= Minutes(r.startTime)

\* C6 witness: a commit after an empty leg of a fraction of a kilometre, and
\* a driver turned down for reachability alone.
C6_Witness ==
    /\ \E n \in Committed :
         /\ ChosenEval(history[n]).emptyRideDistance % 10 # 0
         /\ ChosenEval(history[n]).busyUntil # <<0, 0>>
    /\ \E n \in Processed :
         \E k \in 1..Len(history[n].evals) :
           LET ev == history[n].evals[k]
               d == DriverPool[ev.driverId]
               r == RidePool[history[n].ride]
           IN  /\ HasSeats(d, r) /\ WithinShift(d, r) /\ ~BlockedFor(d, r)
               /\ WithinCap(d, r, ev.ledger) /\ FreeInTime(ev.busyUntil, r)
               /\ ev.resolved
               /\ ~ReachesInTime(ev.busyUntil, r, ev.emptyRideDistance)

\* The ride needs more seats than any driver of the list has.
TooBigForAll(rideId) ==
    \A i \in 1..Len(drivers) : ~HasSeats(DriverPool[drivers[i]], RidePool[rideId])

\* C7: the driver of a committed ride has at least the seats the ride needs;
\* a ride needing more seats than every driver has finds no best driver, is
\* dropped and stands in no list, and a run over that ride alone returns no
\* assignments and a total of 0.
C7_CapacityRespected ==
    /\ \A n \in Committed :
         HasSeats(DriverPool[history[n].chosen], RidePool[history[n].ride])
    /\ \A n \in Processed :
         TooBigForAll(history[n].ride) =>
           /\ history[n].chosen = NullId
           /\ HoldersOf(history[n].ride) = {}
    /\ (pc = "select" /\ TooBigForAll(rides[rideIdx])) => bestDriverId = NullId
    /\ (pc = "done" /\ Len(rides) = 1 /\ TooBigForAll(rides[1])) =>
         /\ result.assignments = <<>>
         /\ result.totalCost = 0

\* C7 witness: a finished run over two drivers of 4 seats that dropped a
\* ride of 5 seats and committed another ride.
C7_Witness ==
    /\ pc = "done"
    /\ Len(drivers) = 2
    /\ \E n \in Processed :
         /\ TooBigForAll(history[n].ride)
         /\ history[n].chosen = NullId
    /\ Committed # {}

\* C8: a ride committed to a driver with a shift starts and ends within the
\* shift, both ends included; a driver without a shift that passes every
\* other check reaches the cost comparison.
C8_ShiftRespected ==
    /\ \A n \in Committed :
         LET d == DriverPool[history[n].chosen]
             r == RidePool[history[n].ride]
         IN  HasShift(d) =>
               /\ Minutes(d.shiftStart) <= Minutes(r.startTime)
               /\ Minutes(r.startTime) <= Minutes(d.shiftEnd)
               /\ Minutes(d.shiftStart) <= Minutes(r.endTime)
               /\ Minutes(r.endTime) <= Minutes(d.shiftEnd)
    /\ \A n \in Processed :
         \A k \in 1..Len(history[n].evals) :
           LET ev == history[n].evals[k]
           IN  (~HasShift(DriverPool[ev.driverId]) /\ Feasible(history[n].ride, ev))
                 => ev.candidate

\* C8 witness: a driver with a shift holds a ride, was turned down by the
\* shift alone for a ride starting inside and ending outside it, and that
\* ride went to a driver without a shift.
C8_Witness ==
    /\ \E n \in Committed : HasShift(DriverPool[history[n].chosen])
    /\ \E n \in Committed :
         /\ ~HasShift(DriverPool[history[n].chosen])
         /\ \E k \in 1..Len(history[n].evals) :
              LET ev == history[n].evals[k]
                  d == DriverPool[ev.driverId]
                  r == RidePool[history[n].ride]
              IN  /\ HasShift(d)
                  /\ Minutes(d.shiftStart) <= Minutes(r.startTime)
                  /\ Minutes(r.startTime) <= Minutes(d.shiftEnd)
                  /\ Minutes(r.endTime) > Minutes(d.shiftEnd)
                  /\ HasSeats(d, r) /\ ~BlockedFor(d, r)
                  /\ FreeInTime(ev.busyUntil, r)

\* C9: a driver one of whose blocked addresses is contained, letter case
\* ignored, in the start point or the end point of a ride never reaches the
\* cost comparison for it and is not chosen; the ride goes to a feasible
\* driver than which no feasible driver is cheaper, or is dropped when no
\* driver is feasible.
C9_BlockedDriverNeverChosen ==
    \A n \in Processed :
      LET h == history[n]
      IN  /\ \A k \in 1..Len(h.evals) :
               BlockedFor(DriverPool[h.evals[k].driverId], RidePool[h.ride]) =>
                 /\ ~h.evals[k].candidate
                 /\ h.chosen # h.evals[k].driverId
                 /\ \A i \in HoldersOf(h.ride) :
                      assignments[i].driverId # h.evals[k].driverId
          /\ h.chosen # NullId =>
               \E c \in FeasibleEvals(h) :
                 /\ h.evals[c].driverId = h.chosen
                 /\ \A k \in FeasibleEvals(h) : h.evals[c].cost <= h.evals[k].cost
          /\ h.chosen = NullId => FeasibleEvals(h) = {}

\* C9 witness: a ride went to a driver although a driver with a lower fuel
\* price stood at the same place and passed every check but the blocked
\* address, so that it would have cost less.
C9_Witness ==
    \E n \in Committed :
      \E k \in 1..Len(history[n].evals) :
        LET h == history[n]
            ev == h.evals[k]
            chosen == ChosenEval(h)
            d == DriverPool[ev.driverId]
            r == RidePool[h.ride]
        IN  /\ BlockedFor(d, r)
            /\ ev.position = chosen.position
            /\ d.fuelCost < DriverPool[h.chosen].fuelCost
            /\ chosen.emptyRideDistance + chosen.rideDistance > 0
            /\ HasSeats(d, r) /\ WithinShift(d, r) /\ WithinCap(d, r, ev.ledger)
            /\ ReachesInTime(ev.busyUntil, r, chosen.emptyRideDistance)

\* The sum of the minimum costs of the commits among the first n rides.
RECURSIVE SumOfMinCosts(_)
SumOfMinCosts(n) ==
    IF n = 0 THEN 0
    ELSE SumOfMinCosts(n - 1)
           + (IF history[n].chosen # NullId THEN history[n].minCost[1] ELSE 0)

\* C10: the running total is at every point the sum of the minimum costs of
\* the commits made so far, each the cost of the chosen driver; it is never
\* negative when no ride ends before it starts; and the total returned is
\* that sum rounded to two decimals, halves upwards.
C10_TotalIsSumRoundedOnce ==
    /\ totalCost = SumOfMinCosts(Len(history))
    /\ \A n \in Committed : history[n].minCost = <<ChosenEval(history[n]).cost>>
    /\ ValidInput => totalCost >= 0
    /\ pc = "done" =>
         /\ 10 * result.totalCost - 5 <= totalCost
         /\ totalCost < 10 * result.totalCost + 5
         /\ ValidInput => result.totalCost >= 0

\* C10 witness: a finished run over valid rides with two commits whose sum
\* has a third decimal of 5 or more.
C10_Witness ==
    /\ pc = "done"
    /\ ValidInput
    /\ Cardinality(Committed) = 2
    /\ totalCost % 10 >= 5

\* ------------------------------------------------------------- cost formula

\* Where a driver stands when the n-th ride is processed: at home before its
\* first commit, at the end point of its last committed ride afterwards.
LastPositionBefore(n, driverId) ==
    LET taken == {m \in 1..(n - 1) : history[m].chosen = driverId}
    IN  IF taken = {}
          THEN DriverPool[driverId].city_coords
          ELSE LET last == CHOOSE m \in taken : \A k \in taken : k <= m
               IN  RidePool[history[last].ride].endPoint_coords

\* C11: every evaluation starts from the driver's home before the driver's
\* first commit and from the end point of its last committed ride afterwards;
\* and the cost of every driver that reaches the comparison is 30 an hour of
\* ride duration plus the fuel of the ride distance plus the fuel of the
\* empty-leg distance, the two distances being those resolved for the leg
\* from that position to the start point and for the leg of the ride.
C11_CostIsTimePlusFuelOfBothLegs ==
    \A n \in Processed :
      \A k \in 1..Len(history[n].evals) :
        LET ev == history[n].evals[k]
            ride == RidePool[history[n].ride]
            driver == DriverPool[ev.driverId]
        IN  /\ ev.position = LastPositionBefore(n, ev.driverId)
            /\ ev.candidate =>
                 /\ ev.emptyRideDistance =
                      ResolvedDistance(ev.position, ride.startPoint_coords)
                 /\ ev.rideDistance =
                      ResolvedDistance(ride.startPoint_coords, ride.endPoint_coords)
                 /\ ev.cost = Duration(ride) * 500
                                + ev.rideDistance * driver.fuelCost
                                + ev.emptyRideDistance * driver.fuelCost

\* C11 witness: a finished run in which a driver was chosen for a second ride
\* from the end point of its first, away from its home, over an empty leg of
\* some length; and a driver was chosen from its home over an empty leg of
\* some length.
C11_Witness ==
    /\ pc = "done"
    /\ \E n \in Committed :
         LET ev == ChosenEval(history[n])
         IN  /\ \E m \in 1..(n - 1) : history[m].chosen = ev.driverId
             /\ ev.position # DriverPool[ev.driverId].city_coords
             /\ ev.emptyRideDistance > 0
    /\ \E n \in Committed :
         LET ev == ChosenEval(history[n])
         IN  /\ ev.position = DriverPool[ev.driverId].city_coords
             /\ \A m \in 1..(n - 1) : history[m].chosen # ev.driverId
             /\ ev.emptyRideDistance > 0

\* ------------------------------------------------- driver at the start point

\* Every evaluation made so far, with the ride it was made for.
AllEvals ==
    UNION {{[ride |-> history[n].ride, ev |-> history[n].evals[k]] :
               k \in 1..Len(history[n].evals)} : n \in Processed}
      \cup (IF pc \in {"eval", "select"}
              THEN {[ride |-> rides[rideIdx], ev |-> evals[k]] : k \in 1..Len(evals)}
              ELSE {})

\* The evaluations that resolved an empty leg from the very coordinates of
\* the ride's start point.
AtStartPoint ==
    {x \in AllEvals : /\ x.ev.resolved
                      /\ x.ev.position = RidePool[x.ride].startPoint_coords}

\* The queries sent for a pair that brought a route back.
RoutedFor(key) ==
    {q \in 1..Len(osrmLog) : osrmLog[q].key = key /\ osrmLog[q].routed}

\* C12 as stated: a driver standing on the coordinates of the ride's start
\* point has an empty leg of 0, whatever the service answers.
C12_SamePlaceEmptyLegIsZero ==
    \A x \in AtStartPoint : x.ev.emptyRideDistance = 0

\* C12, amended: a driver standing on the coordinates of the ride's start
\* point has the empty leg the resolver gives for that pair of equal points:
\* the kilometres of the route the service answered to the one query for the
\* pair, and 0 when that query brought no route; the cost of a driver that
\* reaches the comparison counts that distance times its fuel cost.
C12_SamePlaceEmptyLegIsResolved ==
    \A x \in AtStartPoint :
      LET ride == RidePool[x.ride]
          key == getDistanceCacheKey(x.ev.position, ride.startPoint_coords)
          routed == RoutedFor(key)
      IN  /\ Cardinality(routed) <= 1
          /\ routed = {} => x.ev.emptyRideDistance = 0
          /\ \A q \in routed : x.ev.emptyRideDistance = osrmLog[q].metres \div 100
          /\ x.ev.candidate =>
               x.ev.cost = Duration(ride) * 500
                             + x.ev.rideDistance * DriverPool[x.ev.driverId].fuelCost
                             + x.ev.emptyRideDistance
                                 * DriverPool[x.ev.driverId].fuelCost

\* C12 witness: a finished run in which one driver was chosen while standing
\* on the start point with an empty leg of some length, the service having
\* answered a route for the pair, and another while standing on the start
\* point with an empty leg of 0.
C12_Witness ==
    /\ pc = "done"
    /\ \E n \in Committed :
         LET ev == ChosenEval(history[n])
             start == RidePool[history[n].ride].startPoint_coords
         IN  /\ ev.position = start
             /\ ev.emptyRideDistance > 0
             /\ RoutedFor(getDistanceCacheKey(start, start)) # {}
    /\ \E n \in Committed :
         LET ev == ChosenEval(history[n])
         IN  /\ ev.position = RidePool[history[n].ride].startPoint_coords
             /\ ev.emptyRideDistance = 0

\* ------------------------------------------------------------------- cache

\* The geometric distance of the two points of a cache key.
HaversineOfKey(key) == haversineDistance(<<key[1], key[2]>>, <<key[3], key[4]>>)

\* The legs handed to the resolver so far (geometric distance within the
\* engine's pre-check), as cache keys with the distance the engine got back.
ResolverCalls ==
    {[key |-> getDistanceCacheKey(x.ev.position,
                                  RidePool[x.ride].startPoint_coords),
      by |-> x.ev.driverId, ride |-> x.ride, leg |-> "empty",
      distance |-> x.ev.emptyRideDistance] : x \in {y \in AllEvals : y.ev.resolved}}
      \cup
    {[key |-> getDistanceCacheKey(RidePool[x.ride].startPoint_coords,
                                  RidePool[x.ride].endPoint_coords),
      by |-> x.ev.driverId, ride |-> x.ride, leg |-> "ride",
      distance |-> x.ev.rideDistance] : x \in {y \in AllEvals : y.ev.candidate}}

ResolverCallsWithin == {c \in ResolverCalls : HaversineOfKey(c.key) <= EnginePreFilter}

\* C13: the resolutions of a run come one after another, and for each pair of
\* points at most one query is sent to the service; the answer to it (or the
\* geometric distance, when it brought no route) stays in the cache, and
\* every resolution of the pair returns that cached value.
C13_OneQueryPerPair ==
    /\ \A i, j \in 1..Len(osrmLog) : osrmLog[i].key = osrmLog[j].key => i = j
    /\ \A q \in 1..Len(osrmLog) :
         /\ osrmLog[q].key \in DOMAIN distanceCache
         /\ distanceCache[osrmLog[q].key] =
              IF osrmLog[q].routed THEN osrmLog[q].metres \div 100
              ELSE HaversineOfKey(osrmLog[q].key)
    /\ \A c \in ResolverCallsWithin :
         /\ c.key \in DOMAIN distanceCache
         /\ c.distance = distanceCache[c.key]

\* C13 witness: a finished run in which one pair was resolved three times or
\* more, the one query for it having brought no route, and another pair was
\* resolved twice or more, the one query for it having brought a route.
C13_Witness ==
    /\ pc = "done"
    /\ \E q \in 1..Len(osrmLog) :
         /\ ~osrmLog[q].routed
         /\ Cardinality({c \in ResolverCallsWithin : c.key = osrmLog[q].key}) >= 3
    /\ \E q \in 1..Len(osrmLog) :
         /\ osrmLog[q].routed
         /\ Cardinality({c \in ResolverCallsWithin : c.key = osrmLog[q].key}) >= 2

\* ------------------------------------------------------- distance threshold

\* The legs evaluated so far whose two points are more than 30 km apart (300
\* tenths of a kilometre), within the engine's pre-check or beyond it.
LegsOverThirty == {c \in ResolverCalls : HaversineOfKey(c.key) > 300}

\* C14: a pair of points more than 30 km apart is never sent to the service,
\* and every leg of the run over such a pair, whether the engine hands it to
\* the resolver (up to 50 km) or not, has exactly the geometric distance, as
\* has every entry the resolver left in the cache for such a pair.
C14_NoQueryBeyondThreshold ==
    /\ \A q \in 1..Len(osrmLog) : HaversineOfKey(osrmLog[q].key) <= 300
    /\ \A c \in LegsOverThirty : c.distance = HaversineOfKey(c.key)
    /\ \A key \in DOMAIN distanceCache :
         HaversineOfKey(key) > 300 => distanceCache[key] = HaversineOfKey(key)

\* C14 witness: a finished run that resolved a leg between the resolver's
\* threshold and the engine's pre-check, left by the resolver in the cache,
\* and a leg beyond the pre-check, and sent a query for a shorter leg.
C14_Witness ==
    /\ pc = "done"
    /\ \E c \in LegsOverThirty :
         /\ HaversineOfKey(c.key) <= EnginePreFilter
         /\ c.key \in DOMAIN distanceCache
    /\ \E c \in LegsOverThirty : HaversineOfKey(c.key) > EnginePreFilter
    /\ osrmLog # <<>>

\* --------------------------------------- getDistanceFromOSRM called directly

\* The pairs of points the callers ask for: 8 km apart, one point twice, and
\* 40 km apart.
ResolvePairs ==
    { <<CoordsOf(Lod), CoordsOf(Eilat)>>, <<CoordsOf(Eilat), CoordsOf(Eilat)>>,
      <<CoordsOf(Lod), CoordsOf(Arad)>> }

\* What the service may do with a query: as in OsrmReplies, or answer a route
\* object that has no numeric distance.
ServiceReplies == OsrmReplies \cup {[kind |-> "ok", metres |-> NaN]}

\* The variables of assignDriversToRides, which no direct call touches.
engineVars == <<pc, drivers, rides, rideIdx, driverIdx, bestDriverId, minCost,
                assignments, driverAvailability, totalCost, apiCallsSaved,
                result, evals, history, osrmLog>>

\* The module is loaded: the cache is empty, nobody has called anything.
InitResolver ==
    /\ pc = "start"
    /\ drivers = <<>>
    /\ rides = <<>>
    /\ rideIdx = 0
    /\ driverIdx = 0
    /\ bestDriverId = NullId
    /\ minCost = <<>>
    /\ assignments = <<>>
    /\ driverAvailability = <<>>
    /\ totalCost = 0
    /\ apiCallsSaved = 0
    /\ distanceCache = <<>>
    /\ result = <<>>
    /\ evals = <<>>
    /\ history = <<>>
    /\ osrmLog = <<>>
    /\ ridesData = <<>>
    /\ firstRun = <<>>
    /\ NoCalls

\* What a call hands back to its caller: the distance, after which reply, and
\* what the cache holds for the pair at that moment.
Returned(c, cacheKey, distance, reply, cache) ==
    << [caller |-> c, key |-> cacheKey, distance |-> distance, reply |-> reply,
        cached |-> cache[cacheKey]] >>

\* Lines 54-73: a caller enters getDistanceFromOSRM. A pair in the cache, or
\* further apart than the threshold, is answered at once; for any other pair
\* the request is sent and the call waits at the await.
Call(c, startCoords, endCoords) ==
    /\ calls[c].state = "idle"
    /\ LET cacheKey == getDistanceCacheKey(startCoords, endCoords)
       IN  IF /\ cacheKey \notin DOMAIN distanceCache
              /\ haversineDistance(startCoords, endCoords) <= maxHaversineThreshold
             THEN /\ calls' = [calls EXCEPT ![c] =
                                 [state |-> "awaiting", from |-> startCoords,
                                  to |-> endCoords, reply |-> NoReply]]
                  /\ UNCHANGED <<distanceCache, returned>>
             ELSE LET r == getDistanceFromOSRM(distanceCache, startCoords,
                                               endCoords, NoReply)
                  IN  /\ distanceCache' = r.cache
                      /\ returned' =
                            Returned(c, cacheKey, r.distance, NoReply, r.cache)
                      /\ UNCHANGED calls
    /\ UNCHANGED <<engineVars, rerunVars>>

\* The service settles the request of a waiting call (line 73): axios.get
\* resolves with a response or rejects.
Deliver(c, reply) ==
    /\ calls[c].state = "awaiting"
    /\ calls' = [calls EXCEPT ![c].state = "settled", ![c].reply = reply]
    /\ UNCHANGED <<distanceCache, returned, engineVars, rerunVars>>

\* Lines 75-88: the call resumes after the await and returns.
Continue(c) ==
    /\ calls[c].state = "settled"
    /\ LET cacheKey == getDistanceCacheKey(calls[c].from, calls[c].to)
           r == HandleResponse(distanceCache, cacheKey,
                               haversineDistance(calls[c].from, calls[c].to),
                               calls[c].reply)
       IN  /\ distanceCache' = r.cache
           /\ returned' =
                 Returned(c, cacheKey, r.distance, calls[c].reply, r.cache)
    /\ calls' = [calls EXCEPT ![c] = Idle]
    /\ UNCHANGED <<engineVars, rerunVars>>

NextResolver ==
    \/ \E c \in Callers : \E pair \in ResolvePairs : Call(c, pair[1], pair[2])
    \/ \E c \in Callers : \E reply \in ServiceReplies : Deliver(c, reply)
    \/ \E c \in Callers : Continue(c)

SpecResolver == InitResolver /\ [][NextResolver]_vars

\* The event loop resumes a call whose request has settled; nothing obliges
\* the service to settle a request, and line 73 sets no timeout.
FairSpecResolver ==
    SpecResolver /\ \A c \in Callers : WF_vars(Continue(c))

\* ---------------------------------------------------------- failed queries

\* The replies that are failures of the query: a rejected request, a response
\* without routes, a route without a numeric distance.
FailedReply(reply) ==
    \/ reply.kind \in {"error", "noroutes"}
    \/ reply.kind = "ok" /\ reply.metres = NaN

\* C15: a call whose query failed in whatever way returns the geometric
\* distance of the pair and leaves it in the cache.
C15_FailureFallsBackToGeometric ==
    (returned # <<>> /\ FailedReply(returned[1].reply)) =>
      /\ returned[1].distance = HaversineOfKey(returned[1].key)
      /\ returned[1].cached = HaversineOfKey(returned[1].key)

\* ------------------------------------------------------------- termination

\* C20: every call of the resolver that waits for the service eventually
\* returns.
C20_EveryResolveReturns ==
    \A c \in Callers : (calls[c].state = "awaiting") ~> (calls[c].state = "idle")

\* ------------------------------------------- two runs, each in a new process

\* The first run is given a list of the drivers without shift and a list of
\* the rides that start from Eilat or end there; two of these rides have the
\* same date and start time.
TwiceDriverLists ==
    {l \in DriverLists : \A i \in 1..Len(l) : l[i] \in {"d2", "d3"}}
TwiceRideLists ==
    {l \in RideLists : \A i \in 1..Len(l) : l[i] \in {"r1", "r2", "r4", "r5"}}

InitTwice ==
    /\ pc = "start"
    /\ drivers \in TwiceDriverLists
    /\ rides \in TwiceRideLists
    /\ ridesData = rides
    /\ rideIdx = 0
    /\ driverIdx = 0
    /\ bestDriverId = NullId
    /\ minCost = <<>>
    /\ assignments = <<>>
    /\ driverAvailability = <<>>
    /\ totalCost = 0
    /\ apiCallsSaved = 0
    /\ distanceCache = <<>>
    /\ result = <<>>
    /\ evals = <<>>
    /\ history = <<>>
    /\ osrmLog = <<>>
    /\ firstRun = <<>>
    /\ NoCalls

\* The orders in which the second run is passed the rides of the first: the
\* same order, and the reverse order.
Reversed(list) == [i \in 1..Len(list) |-> list[Len(list) + 1 - i]]
OrdersOf(list) == {list, Reversed(list)}

\* index.js run once more, in a new process: the module is loaded again, so
\* the cache is empty (utils.js line 38), and assignDriversToRides is called
\* with the same drivers and with the rides in the order input; its locals
\* are set by its first lines (Begin).
RunAgain(input) ==
    /\ pc = "done"
    /\ firstRun = <<>>
    /\ firstRun' = << [input |-> ridesData, result |-> result, log |-> osrmLog] >>
    /\ ridesData' = input
    /\ rides' = input
    /\ distanceCache' = <<>>
    /\ result' = <<>>
    /\ evals' = <<>>
    /\ history' = <<>>
    /\ osrmLog' = <<>>
    /\ pc' = "start"
    /\ UNCHANGED <<drivers, rideIdx, driverIdx, bestDriverId, minCost,
                   assignments, driverAvailability, totalCost, apiCallsSaved,
                   resolverVars>>

NextTwice ==
    \/ Begin
    \/ Evaluate
    \/ CommitRide
    \/ DropRide
    \/ Return
    \/ \E input \in OrdersOf(ridesData) : RunAgain(input)

SpecTwice == InitTwice /\ [][NextTwice]_vars

\* The second run has returned.
BothRunsDone == pc = "done" /\ firstRun # <<>>

\* C16: two runs on identical inputs, each from an empty cache, the service
\* answering every pair as before, return the same assignments and the same
\* totalCost.
C16_SameInputSameResult ==
    (BothRunsDone /\ ridesData = firstRun[1].input) =>
      /\ result.assignments = firstRun[1].result.assignments
      /\ result.totalCost = firstRun[1].result.totalCost

\* C16 witness: two runs on the same two rides, both committed at some cost,
\* the service having been asked for a pair and having answered a route.
C16_Witness ==
    /\ BothRunsDone
    /\ ridesData = firstRun[1].input
    /\ Cardinality(Committed) = 2
    /\ result.totalCost > 0
    /\ \E q \in 1..Len(osrmLog) : osrmLog[q].routed
    /\ osrmLog = firstRun[1].log

\* C17: two runs on the same rides passed in two different orders, with the
\* same driver list, return the same assignments and the same totalCost.
C17_RideOrderIrrelevant ==
    BothRunsDone =>
      /\ result.assignments = firstRun[1].result.assignments
      /\ result.totalCost = firstRun[1].result.totalCost

\* -------------------------------------------------------- busyUntil, inverted

\* The commits of one driver, in the order they were made.
CommitsOf(driverId) == {n \in Committed : history[n].chosen = driverId}

\* C18: over the commits of a run a driver's busyUntil, the end time of its
\* last committed ride read as a clock time, never decreases, and a driver is
\* never given a ride that starts before the end time of a ride it was given
\* earlier, whatever the dates of the two rides.
C18_BusyUntilNeverDecreases ==
    \A n \in Committed : \A m \in CommitsOf(history[n].chosen) :
      n < m =>
        /\ Minutes(RidePool[history[n].ride].endTime)
             <= Minutes(RidePool[history[m].ride].endTime)
        /\ Minutes(RidePool[history[n].ride].endTime)
             <= Minutes(RidePool[history[m].ride].startTime)

\* C19: a ride whose end time is before its start time is never assigned.
C19_InvertedRideNeverAssigned ==
    \A n \in Processed :
      Minutes(RidePool[history[n].ride].endTime)
          < Minutes(RidePool[history[n].ride].startTime)
        => history[n].chosen = NullId

\* ------------------------------------------------------- calls in flight

\* The calls whose query for a pair has been sent and that have not returned
\* yet: each of them has issued one query for the pair.
InFlightFor(key) ==
    {c \in Callers : /\ calls[c].state \in {"awaiting", "settled"}
                     /\ getDistanceCacheKey(calls[c].from, calls[c].to) = key}

\* C21: whatever calls are in flight at the same time, no pair of points has
\* more than one query issued for it.
C21_OneQueryForConcurrentCalls ==
    \A pair \in ResolvePairs :
      Cardinality(InFlightFor(getDistanceCacheKey(pair[1], pair[2]))) <= 1

\* ------------------------------------------------------------ frame effect

\* What one step of the processing of a ride may do to the drivers' state
\* and to the running total: the step that commits the ride to the best
\* driver changes that driver's availability, ledger and ride list, once,
\* and adds the minimum cost to the total; any other step changes none of
\* them.
RideStepFrame ==
    pc \in {"eval", "select"} =>
      IF pc = "select" /\ bestDriverId # NullId
        THEN LET ride == RidePool[rides[rideIdx]]
                 i == CHOOSE k \in 1..Len(assignments) :
                        assignments[k].driverId = bestDriverId
             IN  /\ DOMAIN driverAvailability' = DOMAIN driverAvailability
                 /\ \A id \in DOMAIN driverAvailability :
                      id # bestDriverId =>
                        driverAvailability'[id] = driverAvailability[id]
                 /\ driverAvailability'[bestDriverId] =
                      [lastRideEndTime |-> ride.endTime,
                       lastRideEndPoint |-> ride.endPoint,
                       lastRideEndPoint_coords |-> ride.endPoint_coords,
                       busyUntil |-> ride.endTime,
                       lastActiveDate |-> ride.date]
                 /\ Len(assignments') = Len(assignments)
                 /\ \A k \in 1..Len(assignments) :
                      k # i => assignments'[k] = assignments[k]
                 /\ assignments'[i].driverId = bestDriverId
                 /\ assignments'[i].rideIds =
                      Append(assignments[i].rideIds, ride._id)
                 /\ \A d \in Dates :
                      assignments'[i].dailyWorkMinutes[d] =
                        assignments[i].dailyWorkMinutes[d]
                          + (IF d = ride.date THEN Duration(ride) ELSE 0)
                 /\ totalCost' = totalCost + minCost[1]
        ELSE UNCHANGED <<assignments, driverAvailability, totalCost>>

\* C22: processing one ride changes the state of at most one driver: the
\* commit sets the chosen driver's availability to the ride's end time, end
\* point and date, adds the ride to its list and the ride's minutes to its
\* ledger for the ride's date, exactly once, and leaves every other driver as
\* it was; evaluating drivers and dropping the ride change no driver's
\* availability, ledger or ride list, nor the running total.
C22_OneRideChangesOneDriver == [][RideStepFrame]_vars

\* C22 witness: a finished run over two drivers and two rides, one ride
\* committed to a driver, the other dropped, the other driver left without
\* rides at its home.
C22_Witness ==
    /\ pc = "done"
    /\ Len(drivers) = 2
    /\ Cardinality(Committed) = 1
    /\ Len(history) = 2
    /\ \E k \in 1..Len(assignments) :
         /\ assignments[k].rideIds = <<>>
         /\ driverAvailability[assignments[k].driverId] =
              InitialAvailability(DriverPool[assignments[k].driverId])
    /\ \E k \in 1..Len(assignments) : Len(assignments[k].rideIds) = 1

\* ------------------------------------------------ two runs in one process

\* assignDriversToRides called a second time in the same process, with the
\* same drivers and rides: the module is loaded once, so distanceCache
\* (utils.js line 38) is the Map the first call left; the locals of the new
\* call are set by its first lines (Begin).
CallAgain ==
    /\ pc = "done"
    /\ firstRun = <<>>
    /\ firstRun' = << [input |-> ridesData, result |-> result, log |-> osrmLog] >>
    /\ rides' = ridesData
    /\ result' = <<>>
    /\ evals' = <<>>
    /\ history' = <<>>
    /\ osrmLog' = <<>>
    /\ pc' = "start"
    /\ UNCHANGED <<drivers, ridesData, rideIdx, driverIdx, bestDriverId, minCost,
                   assignments, driverAvailability, totalCost, apiCallsSaved,
                   distanceCache, resolverVars>>

NextSameProcess ==
    \/ Begin
    \/ Evaluate
    \/ CommitRide
    \/ DropRide
    \/ Return
    \/ CallAgain

SpecSameProcess == InitTwice /\ [][NextSameProcess]_vars

\* C23: every run of the engine starts with an empty cache, a later run in
\* the same process included, so that what one run cached is not returned from
\* the cache in a later run.
C23_EveryRunStartsWithEmptyCache ==
    pc = "start" => distanceCache = <<>>

====
